---- MODULE Spec2Model ----
(***************************************************************************)
(* Model of the carpe-diem sidecar: the timeline resolver                  *)
(* (src/src/carpe_diem/scheduler.py), the event identity of                *)
(* CalendarEventSchema (src/src/carpe_diem/models.py) and the event fetch  *)
(* with its recurrence expansion (src/src/carpe_diem/eds.py).              *)
(*                                                                         *)
(* Time is counted in ticks of half a second, so that an instant has a     *)
(* part below the second that strftime("%S") drops.  An aware datetime is  *)
(* modelled by its instant (ticks since the epoch, day 0 a Monday);        *)
(* Python compares aware datetimes by instant.                             *)
(***************************************************************************)
EXTENDS Integers, Sequences, FiniteSets, TLC

TicksPerSecond == 2
TicksPerMinute == 60 * TicksPerSecond
TicksPerHour == 60 * TicksPerMinute
TicksPerDay == 24 * TicksPerHour

\* datetime.timedelta(minutes=n), datetime.timedelta(hours=n), timedelta(days=n)
Minutes(n) == n * TicksPerMinute
Hours(n) == n * TicksPerHour
Days(n) == n * TicksPerDay

\* Bounds of the resolver's inputs.
MaxEvents == 2
MaxTasks == 3
MaxTime == 3

\* Bound of the fetch's inputs: the objects of the first calendar.
MaxObjects == 2

\* The resolver's instants are drawn on a grid of five-minute slots.
Slot(k) == Minutes(5 * k)

None == "None"

VARIABLES
    \* resolve_timeline: parameters
    events, all_tasks, cushion_mins, default_task_duration, now,
    \* resolve_timeline: locals
    pc, timeline, standalone_tasks, sorted_events, idx, current_time,
    \* the process: its local zone's offset from UTC
    local_off,
    \* fetch_events: parameter, and what the calendar service holds
    target_date, calendars,
    \* fetch_events: locals
    dt_start_query, dt_end_query, cal_i, obj_i, event_instances, inst_i,
    all_events,
    \* history: every CalendarEventSchema built, every object reached
    built, reached

rvars == <<events, all_tasks, cushion_mins, default_task_duration, now,
           pc, timeline, standalone_tasks, sorted_events, idx, current_time>>

rvars_but_pc == <<events, all_tasks, cushion_mins, default_task_duration, now,
                  timeline, standalone_tasks, sorted_events, idx, current_time>>

fvars == <<local_off, target_date, calendars, dt_start_query, dt_end_query,
           cal_i, obj_i, event_instances, inst_i, all_events, built, reached>>

vars == <<rvars, fvars>>

Max(a, b) == IF a >= b THEN a ELSE b

----------------------------------------------------------------------------
\* models.py: Task (the fields resolve_timeline reads, and the id and title)
Task(id, parent, completed) ==
    [id |-> id, title |-> id, completed |-> completed, parent_event_id |-> parent]

\* models.py: CalendarEventSchema, after its validator: both instants are in
\* the local zone, and are kept here as instants.
CalendarEvent(id, title, start, end, source) ==
    [id |-> id, title |-> title, start_time |-> start, end_time |-> end,
     source_id |-> source]

\* models.py: TimelineItem
TimelineItem(type, title, start, end, nested, source) ==
    [item_type |-> type, title |-> title, start_time |-> start,
     end_time |-> end, nested_tasks |-> nested, source_id |-> source]

GAP_TASK == "GapTask"
EVENT_FOLDER == "EventFolder"

\* [t for t in all_tasks if t.parent_event_id is None and not t.completed]
RECURSIVE Standalone(_)
Standalone(ts) ==
    IF ts = <<>> THEN <<>>
    ELSE IF Head(ts).parent_event_id = None /\ ~Head(ts).completed
         THEN <<Head(ts)>> \o Standalone(Tail(ts))
         ELSE Standalone(Tail(ts))

\* As Nested, without the comparison of ids.
RECURSIVE NestedAll(_, _)
NestedAll(ts, id) ==
    IF ts = <<>> THEN <<>>
    ELSE <<Head(ts)>> \o NestedAll(Tail(ts), id)

\* [t for t in all_tasks if t.parent_event_id == event.id]
RECURSIVE Nested(_, _)
Nested(ts, id) ==
    IF ts = <<>> THEN <<>>
    ELSE IF Head(ts).parent_event_id = id
         THEN <<Head(ts)>> \o Nested(Tail(ts), id)
         ELSE Nested(Tail(ts), id)

\* sorted(events, key=lambda x: x.start_time): a stable sort, so the result is
\* ordered by start_time and keeps the iteration order of events among equal
\* keys.  events is the set fetch_events returns (main.py 17, 23), iterated in
\* an arbitrary order: every ordering by start_time is a possible result.
Earliest(S) == {x \in S : \A y \in S : x.start_time <= y.start_time}

\* As Sorted, without the sort.
RECURSIVE SortedUnsorted(_)
SortedUnsorted(S) ==
    IF S = {} THEN {<<>>}
    ELSE UNION {{<<m>> \o s : s \in SortedUnsorted(S \ {m})} : m \in S}

RECURSIVE Sorted(_)
Sorted(S) ==
    IF S = {} THEN {<<>>}
    ELSE UNION {{<<m>> \o s : s \in Sorted(S \ {m})} : m \in Earliest(S)}

----------------------------------------------------------------------------
\* The resolver's inputs.
Times == {Slot(k) : k \in 0..MaxTime}

CushionChoices == {0, 5}
DurationChoices == {5, 10}

EventIds == {"e1", "e2"}

\* Events with end >= start and with end < start (a caller's precondition
\* violation the resolver does not check).
TimedEvents(ids) ==
    {CalendarEvent(i, i, s, e, "cal") : i \in ids, s \in Times, e \in Times}

SubsetsUpTo(S, n) == {X \in SUBSET S : Cardinality(X) <= n}

TaskLists(parents) ==
    UNION {{[i \in 1..n |-> Task(ToString(i), f[i][1], f[i][2])] :
               f \in [1..n -> parents \X BOOLEAN]} : n \in 0..MaxTasks}

\* Timing variety: every task standalone and open, every event of one id.
InitTiming ==
    /\ events \in SubsetsUpTo(TimedEvents({"e1"}), MaxEvents)
    /\ all_tasks \in TaskLists({None})
    /\ \A i \in DOMAIN all_tasks : ~all_tasks[i].completed
    /\ cushion_mins \in CushionChoices
    /\ default_task_duration \in DurationChoices
    /\ now \in Times

\* Task variety: standalone, completed and nested tasks, events of two ids
\* (two occurrences of a recurring event share their id).
InitNesting ==
    /\ events \in SubsetsUpTo({e \in TimedEvents(EventIds) :
                                  e.end_time = e.start_time + Slot(1)}, MaxEvents)
    /\ all_tasks \in TaskLists({None, "e1"})
    /\ cushion_mins = 5
    /\ default_task_duration = 5
    /\ now = Slot(0)

\* Three standalone tasks of 30 minutes under a cushion of 5 minutes, now at
\* 08:00 and one event from 09:00 to 10:00.
InitScenario ==
    /\ events = {CalendarEvent("e1", "e1", Hours(9), Hours(10), "cal")}
    /\ all_tasks = [i \in 1..3 |-> Task(ToString(i), None, FALSE)]
    /\ cushion_mins = 5
    /\ default_task_duration = 30
    /\ now = Hours(8)

ResolverIdle ==
    /\ timeline = <<>>
    /\ standalone_tasks = <<>>
    /\ sorted_events = <<>>
    /\ idx = 1
    /\ current_time = 0

FetchIdle ==
    /\ dt_start_query = 0
    /\ dt_end_query = 0
    /\ cal_i = 1
    /\ obj_i = 1
    /\ event_instances = <<>>
    /\ inst_i = 1
    /\ all_events = {}
    /\ built = {}
    /\ reached = {}

\* resolve_timeline called on its own.
Init ==
    /\ InitTiming \/ InitNesting \/ InitScenario
    /\ pc = "call"
    /\ ResolverIdle
    /\ local_off = 0
    /\ target_date = 0
    /\ calendars = <<>>
    /\ FetchIdle

cushion == Minutes(cushion_mins)
task_dur == Minutes(default_task_duration)

\* scheduler.py 16-27
ResolveStart ==
    /\ pc = "call"
    /\ timeline' = <<>>
    /\ standalone_tasks' = Standalone(all_tasks)
    /\ sorted_events' \in Sorted(events)
    /\ current_time' = now
    /\ idx' = 1
    /\ pc' = "events"
    /\ UNCHANGED <<events, all_tasks, cushion_mins, default_task_duration, now>>
    /\ UNCHANGED fvars

\* As GapFits, leaving no room for the cushion.
GapFitsNoCushion(cur, queue, event) ==
    queue # <<>> /\ cur + task_dur <= event.start_time

\* The while condition of scheduler.py 32-34
GapFits(cur, queue, event) ==
    queue # <<>> /\ cur + task_dur + cushion <= event.start_time

\* As FillGap, reading standalone_tasks[0] without popping it.
FillGapNoPop ==
    /\ pc = "events"
    /\ idx <= Len(sorted_events)
    /\ GapFits(current_time, standalone_tasks, sorted_events[idx])
    /\ LET task == Head(standalone_tasks) IN
       timeline' = Append(timeline,
            TimelineItem(GAP_TASK, task.title, current_time,
                         current_time + task_dur, <<task>>, None))
    /\ current_time' = current_time + task_dur + cushion
    /\ UNCHANGED <<events, all_tasks, cushion_mins, default_task_duration, now,
                   pc, standalone_tasks, sorted_events, idx>>
    /\ UNCHANGED fvars

\* As FillGap, moving the cursor by the task's duration without the cushion.
FillGapNoCushionAdvance ==
    /\ pc = "events"
    /\ idx <= Len(sorted_events)
    /\ GapFits(current_time, standalone_tasks, sorted_events[idx])
    /\ LET task == Head(standalone_tasks) IN
       timeline' = Append(timeline,
            TimelineItem(GAP_TASK, task.title, current_time,
                         current_time + task_dur, <<task>>, None))
    /\ standalone_tasks' = Tail(standalone_tasks)
    /\ current_time' = current_time + task_dur
    /\ UNCHANGED <<events, all_tasks, cushion_mins, default_task_duration, now,
                   pc, sorted_events, idx>>
    /\ UNCHANGED fvars

\* scheduler.py 35-45: one iteration of the while loop
FillGap ==
    /\ pc = "events"
    /\ idx <= Len(sorted_events)
    /\ GapFits(current_time, standalone_tasks, sorted_events[idx])
    /\ LET task == Head(standalone_tasks) IN
       timeline' = Append(timeline,
            TimelineItem(GAP_TASK, task.title, current_time,
                         current_time + task_dur, <<task>>, None))
    /\ standalone_tasks' = Tail(standalone_tasks)
    /\ current_time' = current_time + task_dur + cushion
    /\ UNCHANGED <<events, all_tasks, cushion_mins, default_task_duration, now,
                   pc, sorted_events, idx>>
    /\ UNCHANGED fvars

\* As AdvancePast, letting an event move the cursor backward.
AdvancePastNoMax(cur, event) == event.end_time + cushion

\* scheduler.py 61
AdvancePast(cur, event) == Max(cur, event.end_time + cushion)

\* scheduler.py 47-61: the while loop is left, the folder is added
AddEventFolder ==
    /\ pc = "events"
    /\ idx <= Len(sorted_events)
    /\ ~GapFits(current_time, standalone_tasks, sorted_events[idx])
    /\ LET event == sorted_events[idx] IN
       /\ timeline' = Append(timeline,
            TimelineItem(EVENT_FOLDER, event.title, event.start_time,
                         event.end_time, Nested(all_tasks, event.id), event.id))
       /\ current_time' = AdvancePast(current_time, event)
    /\ idx' = idx + 1
    /\ UNCHANGED <<events, all_tasks, cushion_mins, default_task_duration, now,
                   pc, standalone_tasks, sorted_events>>
    /\ UNCHANGED fvars

\* scheduler.py 64-74: one iteration of the closing for loop.  The loop does
\* not pop; the queue is consumed here to mark the loop's position.
AppendRemaining ==
    /\ pc = "events"
    /\ idx > Len(sorted_events)
    /\ standalone_tasks # <<>>
    /\ LET task == Head(standalone_tasks) IN
       timeline' = Append(timeline,
            TimelineItem(GAP_TASK, task.title, current_time,
                         current_time + task_dur, <<task>>, None))
    /\ standalone_tasks' = Tail(standalone_tasks)
    /\ current_time' = current_time + task_dur + cushion
    /\ UNCHANGED <<events, all_tasks, cushion_mins, default_task_duration, now,
                   pc, sorted_events, idx>>
    /\ UNCHANGED fvars

\* scheduler.py 76
Return ==
    /\ pc = "events"
    /\ idx > Len(sorted_events)
    /\ standalone_tasks = <<>>
    /\ pc' = "done"
    /\ UNCHANGED <<events, all_tasks, cushion_mins, default_task_duration, now,
                   timeline, standalone_tasks, sorted_events, idx, current_time>>
    /\ UNCHANGED fvars

Next == ResolveStart \/ FillGap \/ AddEventFolder \/ AppendRemaining \/ Return

Spec == Init /\ [][Next]_vars

----------------------------------------------------------------------------
\* The fetch: eds.py, EDSCalendarFetcher.fetch_events.

\* A datetime with a tzinfo: its wall-clock fields, its zone's offset from
\* UTC, and whether its tzinfo compares equal to datetime.UTC.
Aware(wall, off, utc) == [wall |-> wall, off |-> off, utc |-> utc]

\* The instant of an aware datetime: how Python compares and subtracts them.
Instant(d) == d.wall - d.off

\* The decoded value of DTSTART, DTEND or UNTIL: a date, a naive datetime or
\* an aware one.
RawDate(day) == [kind |-> "date", wall |-> Days(day), off |-> 0, utc |-> FALSE]
RawNaive(wall) == [kind |-> "naive", wall |-> wall, off |-> 0, utc |-> FALSE]
RawAware(wall, off, utc) == [kind |-> "aware", wall |-> wall, off |-> off, utc |-> utc]
NoValue == [kind |-> "none", wall |-> 0, off |-> 0, utc |-> FALSE]

\* datetime.combine(d, datetime.min.time()): only the date of d is kept.
Midnight(wall) == (wall \div TicksPerDay) * TicksPerDay

\* eds.py 191-200, one of the two instants.  start_is_date is what
\* type(raw_start) is dt.date found.
BaseTime(raw, start_is_date) ==
    IF start_is_date THEN Aware(Midnight(raw.wall), 0, TRUE)
    ELSE IF raw.kind = "aware" THEN Aware(raw.wall, raw.off, raw.utc)
    ELSE Aware(raw.wall, 0, TRUE)

\* eds.py 199-200 read raw_end.tzinfo, which a date does not have.
BaseRaises(comp) == comp.dtstart.kind # "date" /\ comp.dtend.kind = "date"

base_start_of(comp) == BaseTime(comp.dtstart, comp.dtstart.kind = "date")
base_end_of(comp) == BaseTime(comp.dtend, comp.dtstart.kind = "date")

\* eds.py 202
duration_of(comp) == Instant(base_end_of(comp)) - Instant(base_start_of(comp))

\* datetime + timedelta keeps the tzinfo
Plus(d, delta) == [d EXCEPT !.wall = @ + delta]

\* eds.py 143-151; datetime.weekday() counts from Monday, and day 0 of the
\* model is a Monday.
WEEKDAY_MAP ==
    [d \in {"MO", "TU", "WE", "TH", "FR", "SA", "SU"} |->
        CASE d = "MO" -> 0 [] d = "TU" -> 1 [] d = "WE" -> 2 [] d = "TH" -> 3
          [] d = "FR" -> 4 [] d = "SA" -> 5 [] d = "SU" -> 6]

Weekday(wall) == (wall \div TicksPerDay) % 7

\* An RRULE: FREQ (a list of strings, here its first entry or "" when the
\* list is empty), BYDAY and UNTIL.
Rule(freq, byday, until) ==
    [present |-> TRUE, freq |-> freq, byday |-> byday, until |-> until]
NoRule == [present |-> FALSE, freq |-> "", byday |-> {}, until |-> NoValue]

\* eds.py 210-219.  MONTHLY and YEARLY rules are not among the inputs.
freq_of(rule) == IF rule.freq \in {"WEEKLY", "DAILY"} THEN rule.freq ELSE "WEEKLY"

\* eds.py 222-229
byweekday_of(rule) == {WEEKDAY_MAP[d] : d \in rule.byday \cap DOMAIN WEEKDAY_MAP}

\* eds.py 232-236
until_of(rule) ==
    IF rule.until.kind = "naive" THEN RawAware(rule.until.wall, 0, TRUE)
    ELSE rule.until

\* What makes eds.py 218-249 raise: FREQ holding an empty list (218), and an
\* UNTIL that is a date, which rrule() turns into a naive datetime and then
\* rejects beside the aware dtstart (238-243).
ExpansionRaises(rule) == rule.freq = "" \/ rule.until.kind = "date"

\* rrule.rrule(freq, dtstart, until, byweekday) (eds.py 238-243): whether the
\* k-th day after dtstart, at dtstart's wall-clock time, is an occurrence.
IsOccurrence(rule, dtstart, k) ==
    LET occ == Plus(dtstart, Days(k)) IN
    /\ IF byweekday_of(rule) # {} THEN Weekday(occ.wall) \in byweekday_of(rule)
       ELSE freq_of(rule) = "WEEKLY" => k % 7 = 0
    /\ until_of(rule).kind = "aware" => Instant(occ) <= Instant(until_of(rule))

\* rule.between(search_start, search_end, inc=True) (eds.py 246-249), in
\* order, from the k-th day after dtstart on.
RECURSIVE Between(_, _, _, _, _)
Between(rule, dtstart, k, search_start, search_end) ==
    LET occ == Plus(dtstart, Days(k)) IN
    IF Instant(occ) > search_end THEN <<>>
    ELSE (IF IsOccurrence(rule, dtstart, k) /\ Instant(occ) >= search_start
          THEN <<occ>> ELSE <<>>)
         \o Between(rule, dtstart, k + 1, search_start, search_end)

\* eds.py 254
Overlaps(rec_start, rec_end, q_start, q_end) ==
    Instant(rec_start) < q_end /\ Instant(rec_end) > q_start

\* eds.py 251-255
RECURSIVE Kept(_, _, _, _)
Kept(recurrences, duration, q_start, q_end) ==
    IF recurrences = <<>> THEN <<>>
    ELSE LET rec_start == Head(recurrences)
             rec_end == Plus(rec_start, duration)
         IN (IF Overlaps(rec_start, rec_end, q_start, q_end)
             THEN <<[start |-> rec_start, end |-> rec_end]>> ELSE <<>>)
            \o Kept(Tail(recurrences), duration, q_start, q_end)

\* eds.py 246-255: the recurrences of a component that are kept
Expand(comp, q_start, q_end) ==
    Kept(Between(comp.rrule, base_start_of(comp), 0,
                 q_start - Hours(24), q_end + Hours(24)),
         duration_of(comp), q_start, q_end)

BaseInstance(comp) == [start |-> base_start_of(comp), end |-> base_end_of(comp)]

\* models.py 72-89, the validator of start_time and end_time: a value whose
\* tzinfo equals datetime.UTC keeps its wall-clock fields and takes the local
\* zone, any other is converted.  The result is in the local zone and is kept
\* as its instant.
FixLyingOutlookTimezone(v, local) ==
    IF v.utc THEN v.wall - local ELSE Instant(v)

\* As EventEq, comparing the ids too.
EventEqWithId(a, b) ==
    /\ a.title = b.title
    /\ a.start_time = b.start_time
    /\ a.end_time = b.end_time
    /\ a.id = b.id

\* models.py 91-99, __eq__
EventEq(a, b) ==
    /\ a.title = b.title
    /\ a.start_time = b.start_time
    /\ a.end_time = b.end_time

\* strftime("%d%m%Y%H:%M:%S") of an instant in the local zone: its wall-clock
\* fields down to the second.
StrfTime(t, local) == (t + local) \div TicksPerSecond

\* models.py 101-107, __hash__: the hash of the string made of the title and
\* the two formatted times (the titles of the model hold no "_", so the
\* string is given by its three parts).
EventHash(e, local) ==
    <<e.title, StrfTime(e.start_time, local), StrfTime(e.end_time, local)>>

\* set.add (eds.py 281): an element is added unless the set holds one of the
\* same hash that equals it.
SetAdd(S, e, local) ==
    IF \E x \in S : EventHash(x, local) = EventHash(e, local) /\ EventEq(x, e)
    THEN S ELSE S \cup {e}

\* What the calendar service returns: an iCalendar string holding one VEVENT,
\* or one icalendar cannot parse (eds.py 179).
VEvent(uid, summary, dtstart, dtend, rule) ==
    [parse_ok |-> TRUE, uid |-> uid, summary |-> summary,
     dtstart |-> dtstart, dtend |-> dtend, rrule |-> rule]
Unparsable == [VEvent("", "", NoValue, NoValue, NoRule) EXCEPT !.parse_ok = FALSE]

\* A calendar source, and whether OpenCalendar and GetObjectList succeed on it
CalendarSource(id, open_ok, objects) ==
    [id |-> id, open_ok |-> open_ok, objects |-> objects]

component == calendars[cal_i].objects[obj_i]

\* eds.py 153-168
FetchStart ==
    /\ pc = "fetch"
    /\ dt_start_query' = Days(target_date) - local_off
    /\ dt_end_query' = Days(target_date) - local_off + Days(1)
    /\ all_events' = {}
    /\ cal_i' = 1
    /\ obj_i' = 1
    /\ pc' = IF calendars = <<>> THEN "fetched" ELSE "calendar"
    /\ UNCHANGED <<rvars_but_pc, local_off, target_date, calendars,
                   event_instances, inst_i, built, reached>>

\* eds.py 170-175, 285-286: the next calendar is opened and its objects are
\* listed, or the failure is printed and the calendar is left
OpenCalendar ==
    /\ pc = "calendar"
    /\ cal_i <= Len(calendars)
    /\ calendars[cal_i].open_ok
    /\ obj_i' = 1
    /\ pc' = "object"
    /\ UNCHANGED <<rvars_but_pc, local_off, target_date, calendars,
                   dt_start_query, dt_end_query, cal_i, event_instances,
                   inst_i, all_events, built, reached>>

OpenCalendarFails ==
    /\ pc = "calendar"
    /\ cal_i <= Len(calendars)
    /\ ~calendars[cal_i].open_ok
    /\ cal_i' = cal_i + 1
    /\ UNCHANGED <<rvars, local_off, target_date, calendars,
                   dt_start_query, dt_end_query, obj_i, event_instances,
                   inst_i, all_events, built, reached>>

\* eds.py 177: the objects of the calendar are exhausted
NextCalendar ==
    /\ pc = "object"
    /\ obj_i > Len(calendars[cal_i].objects)
    /\ cal_i' = cal_i + 1
    /\ pc' = "calendar"
    /\ UNCHANGED <<rvars_but_pc, local_off, target_date, calendars,
                   dt_start_query, dt_end_query, obj_i, event_instances,
                   inst_i, all_events, built, reached>>

AtObject == pc = "object" /\ obj_i <= Len(calendars[cal_i].objects)

\* The exception is caught at eds.py 282-283 and the next object is taken.
SkipObject ==
    /\ obj_i' = obj_i + 1
    /\ reached' = reached \cup {<<cal_i, obj_i>>}
    /\ UNCHANGED <<rvars, local_off, target_date, calendars,
                   dt_start_query, dt_end_query, cal_i, event_instances,
                   inst_i, all_events, built>>

\* eds.py 179: from_ical raises
ParseFails ==
    /\ AtObject
    /\ ~component.parse_ok
    /\ SkipObject

\* eds.py 199-200: raw_end is a date beside a datetime raw_start
BaseFails ==
    /\ AtObject
    /\ component.parse_ok
    /\ BaseRaises(component)
    /\ SkipObject

\* The instances of the component are set, and the loop of eds.py 266 starts.
Instances(insts) ==
    /\ event_instances' = insts
    /\ inst_i' = 1
    /\ reached' = reached \cup {<<cal_i, obj_i>>}
    /\ pc' = "instances"
    /\ UNCHANGED <<rvars_but_pc, local_off, target_date, calendars,
                   dt_start_query, dt_end_query, cal_i, obj_i, all_events, built>>

Parsed == AtObject /\ component.parse_ok /\ ~BaseRaises(component)

\* eds.py 262-264
NonRecurring ==
    /\ Parsed
    /\ ~component.rrule.present
    /\ Instances(<<BaseInstance(component)>>)

\* eds.py 208-255
ExpandRule ==
    /\ Parsed
    /\ component.rrule.present
    /\ ~ExpansionRaises(component.rrule)
    /\ Instances(Expand(component, dt_start_query, dt_end_query))

\* As ExpandRuleFails, the exception leaving the loop over the objects: the
\* handler of eds.py 285 takes the next calendar.
ExpandRuleFailsLeavesCalendar ==
    /\ Parsed
    /\ component.rrule.present
    /\ ExpansionRaises(component.rrule)
    /\ cal_i' = cal_i + 1
    /\ pc' = "calendar"
    /\ reached' = reached \cup {<<cal_i, obj_i>>}
    /\ UNCHANGED <<rvars_but_pc, local_off, target_date, calendars,
                   dt_start_query, dt_end_query, obj_i, event_instances,
                   inst_i, all_events, built>>

\* eds.py 257-260: nothing was appended before the exception, the base
\* occurrence is
ExpandRuleFails ==
    /\ Parsed
    /\ component.rrule.present
    /\ ExpansionRaises(component.rrule)
    /\ Instances(<<BaseInstance(component)>>)

\* models.py 66-70 and 72-89: the CalendarEventSchema of eds.py 274-280
cal_event_of(inst) ==
    CalendarEvent(component.uid, component.summary,
                  FixLyingOutlookTimezone(inst.start, local_off),
                  FixLyingOutlookTimezone(inst.end, local_off),
                  calendars[cal_i].id)

\* eds.py 266-281: one iteration
AddInstance ==
    /\ pc = "instances"
    /\ inst_i <= Len(event_instances)
    /\ LET cal_event == cal_event_of(event_instances[inst_i]) IN
       /\ all_events' = SetAdd(all_events, cal_event, local_off)
       /\ built' = built \cup {cal_event}
    /\ inst_i' = inst_i + 1
    /\ UNCHANGED <<rvars, local_off, target_date, calendars,
                   dt_start_query, dt_end_query, cal_i, obj_i,
                   event_instances, reached>>

\* eds.py 266, 177: the instances are exhausted, the next object is taken
NextObject ==
    /\ pc = "instances"
    /\ inst_i > Len(event_instances)
    /\ obj_i' = obj_i + 1
    /\ pc' = "object"
    /\ UNCHANGED <<rvars_but_pc, local_off, target_date, calendars,
                   dt_start_query, dt_end_query, cal_i, event_instances,
                   inst_i, all_events, built, reached>>

\* eds.py 288
FetchReturn ==
    /\ pc = "calendar"
    /\ cal_i > Len(calendars)
    /\ pc' = "fetched"
    /\ UNCHANGED <<rvars_but_pc, fvars>>

\* main.py 13-25, get_timeline after the fetch: resolve_timeline is called
\* on the set with no task and its default cushion and duration.
GetTimeline ==
    /\ pc = "fetched"
    /\ events' = all_events
    /\ all_tasks' = <<>>
    /\ cushion_mins' = 5
    /\ default_task_duration' = 15
    /\ now' \in {dt_start_query, dt_start_query + Hours(12)}
    /\ pc' = "call"
    /\ UNCHANGED <<timeline, standalone_tasks, sorted_events, idx, current_time>>
    /\ UNCHANGED fvars

Fetch ==
    \/ FetchStart \/ OpenCalendar \/ OpenCalendarFails \/ NextCalendar
    \/ ParseFails \/ BaseFails \/ NonRecurring \/ ExpandRule \/ ExpandRuleFails
    \/ AddInstance \/ NextObject \/ FetchReturn

\* get_timeline passes no task: the loops of scheduler.py 32-45 and 64-74
\* are not entered.
NextFetch == Fetch \/ GetTimeline \/ ResolveStart \/ AddEventFolder \/ Return

----------------------------------------------------------------------------
\* The fetch's inputs.  Day 0 is a Monday; the target days are the Wednesday
\* and the Thursday of the next week.
LocalOffsets == {Hours(0 - 10), Hours(0), Hours(2)}
Wednesday == 7 + 2
TargetDays == {Wednesday, Wednesday + 1}

At(day, hour, minute) == Days(day) + Hours(hour) + Minutes(minute)

\* The instant a raw value stands for: a date and a naive datetime are
\* floating, that is local.
TrueInstant(raw, local) ==
    IF raw.kind = "aware" THEN raw.wall - raw.off ELSE raw.wall - local

\* (occur-in-time-range? start end) (eds.py 163-166), for an object with no
\* rule: the service returns it when it meets the queried range.
OccursInRange(obj, day, local) ==
    /\ TrueInstant(obj.dtstart, local) < Days(day) - local + Days(1)
    /\ TrueInstant(obj.dtend, local) > Days(day) - local

Returnable(obj, day, local) ==
    obj.parse_ok /\ ~obj.rrule.present => OccursInRange(obj, day, local)

SeqsUpTo(S, n) == UNION {[1..k -> S] : k \in 0..n}

\* A quarter-hour event at 09:00, floating or in the zone of UTC+2, alone on
\* the target day or daily from day 0 on, with or without an UNTIL that is a
\* date.
FlowRules ==
    {NoRule, Rule("DAILY", {}, NoValue), Rule("DAILY", {}, RawDate(Wednesday + 7))}

FlowObject(uid, zoned, rule) ==
    LET day == IF rule.present THEN 0 ELSE Wednesday IN
    IF zoned
    THEN VEvent(uid, "Standup", RawAware(At(day, 9, 0), Hours(2), FALSE),
                RawAware(At(day, 9, 15), Hours(2), FALSE), rule)
    ELSE VEvent(uid, "Standup", RawNaive(At(day, 9, 0)),
                RawNaive(At(day, 9, 15)), rule)

FlowObjects ==
    {FlowObject(uid, zoned, rule) :
        uid \in {"u1", "u2"}, zoned \in BOOLEAN, rule \in FlowRules}
    \cup {Unparsable,
          VEvent("u3", "Offsite", RawNaive(At(Wednesday, 9, 0)),
                 RawDate(Wednesday + 1), NoRule)}

\* Two calendars, the second one of a single object and possibly failing.
InitFlow ==
    /\ target_date = Wednesday
    /\ local_off \in {Hours(2), Hours(0 - 10)}
    /\ \E objs \in SeqsUpTo(FlowObjects, MaxObjects), open_ok \in BOOLEAN,
          zoned \in BOOLEAN, rule \in {NoRule, Rule("DAILY", {}, NoValue)} :
          calendars = <<CalendarSource("calA", TRUE, objs),
                        CalendarSource("calB", open_ok,
                                       <<FlowObject("u2", zoned, rule)>>)>>

\* One event with no rule, its start and its end each a date, naive, tagged
\* datetime.UTC or tagged with a zone of UTC or of UTC+2.
TaggedStarts ==
    {RawDate(Wednesday), RawNaive(At(Wednesday, 9, 0)),
     RawAware(At(Wednesday, 9, 0), 0, TRUE),
     RawAware(At(Wednesday, 9, 0), 0, FALSE),
     RawAware(At(Wednesday, 11, 0), Hours(2), FALSE)}

TaggedEnds ==
    {RawDate(Wednesday + 1), RawNaive(At(Wednesday, 10, 0)),
     RawAware(At(Wednesday, 10, 0), 0, TRUE),
     RawAware(At(Wednesday, 10, 0), 0, FALSE),
     RawAware(At(Wednesday, 12, 0), Hours(2), FALSE)}

InitTagging ==
    /\ target_date = Wednesday
    /\ local_off \in LocalOffsets
    /\ \E s \in TaggedStarts, e \in TaggedEnds :
          /\ TrueInstant(e, local_off) >= TrueInstant(s, local_off)
          /\ calendars = <<CalendarSource("calA", TRUE,
                              <<VEvent("u1", "Visit", s, e, NoRule)>>)>>

\* One recurring event of an hour, floating, from the Monday of day 0 on.
RecurringRules ==
    {Rule(freq, byday, until) :
        freq \in {"WEEKLY", "DAILY", "SECONDLY", ""},
        byday \in {{}, {"MO", "WE"}, {"MO"}, {"WE", "1FR"}},
        until \in {NoValue, RawNaive(At(Wednesday + 7, 0, 0)),
                   RawAware(At(Wednesday - 1, 0, 0), 0, TRUE)}}

InitRecurring ==
    /\ target_date \in TargetDays
    /\ local_off \in LocalOffsets
    /\ \E hour \in {1, 9, 22}, rule \in RecurringRules :
          calendars = <<CalendarSource("calA", TRUE,
                          <<VEvent("u1", "Class", RawNaive(At(0, hour, 0)),
                                   RawNaive(At(0, hour + 1, 0)), rule)>>)>>

InitEmpty ==
    /\ target_date = Wednesday
    /\ local_off \in LocalOffsets
    /\ calendars = <<>>

\* get_timeline (main.py 9-25)
InitFetch ==
    /\ InitFlow \/ InitTagging \/ InitRecurring \/ InitEmpty
    /\ \A c \in DOMAIN calendars : \A o \in DOMAIN calendars[c].objects :
          Returnable(calendars[c].objects[o], target_date, local_off)
    /\ pc = "fetch"
    /\ events = {}
    /\ all_tasks = <<>>
    /\ cushion_mins = 5
    /\ default_task_duration = 15
    /\ now = 0
    /\ ResolverIdle
    /\ FetchIdle

SpecFetch == InitFetch /\ [][NextFetch]_vars

----------------------------------------------------------------------------
\* Properties of the resolver.

Items == DOMAIN timeline
IsGap(i) == timeline[i].item_type = GAP_TASK
IsFolder(i) == timeline[i].item_type = EVENT_FOLDER
Carries(i, t) == \E k \in DOMAIN timeline[i].nested_tasks : timeline[i].nested_tasks[k] = t
TaskSet == {all_tasks[i] : i \in DOMAIN all_tasks}
IsStandalone(t) == t.parent_event_id = None /\ ~t.completed
GapsCarrying(t) == {i \in Items : IsGap(i) /\ Carries(i, t)}
EndsNotBeforeStarts == \A e \in events : e.end_time >= e.start_time
Overlapping(e, f) == e # f /\ e.start_time < f.end_time /\ f.start_time < e.end_time

\* C1: every standalone task (parent_event_id null, not completed) is carried
\* by exactly one GapTask of the returned timeline, and by at most one while
\* the timeline is being built.
C1_StandaloneExactlyOnce ==
    \A t \in TaskSet : IsStandalone(t) =>
        /\ Cardinality(GapsCarrying(t)) <= 1
        /\ pc = "done" => Cardinality(GapsCarrying(t)) = 1

\* A returned timeline with one standalone task placed in a gap before an
\* event and another drained after the last event.
C1_Witness ==
    /\ pc = "done"
    /\ \E i, j, k \in Items : i < j /\ j < k /\ IsGap(i) /\ IsFolder(j) /\ IsGap(k)
                              /\ \A m \in Items : m > j => IsGap(m)

\* C2: when no event ends before it starts, the timeline is non-decreasing in
\* start_time across consecutive items.
C2_NonDecreasingStart ==
    EndsNotBeforeStarts =>
        \A i \in Items : i + 1 \in Items =>
            timeline[i].start_time <= timeline[i + 1].start_time

\* A returned timeline over two overlapping events, one of them started
\* before now, with a task scheduled after them.
C2_Witness ==
    /\ pc = "done"
    /\ EndsNotBeforeStarts
    /\ \E e, f \in events : Overlapping(e, f) /\ e.start_time < now
    /\ \E i \in Items : IsGap(i)

\* [a, b) and [c, d] share an instant; [a, b) and [c, d) share an instant
MeetsClosed(a, b, c, d) == a < b /\ c <= d /\ a <= d /\ c < b
MeetsHalfOpen(a, b, c, d) == a < b /\ c < d /\ a < d /\ c < b

\* C3 as stated: no GapTask's [start, end) meets the [start, end] of an
\* EventFolder of the same timeline, when no event ends before it starts.
C3_Original ==
    EndsNotBeforeStarts =>
        \A g, f \in Items : IsGap(g) /\ IsFolder(f) =>
            ~MeetsClosed(timeline[g].start_time, timeline[g].end_time,
                         timeline[f].start_time, timeline[f].end_time)

\* C3 amended: no GapTask's [start, end) meets the [start, end) of an
\* EventFolder, and with a cushion above zero none meets its [start, end].
C3_NoOverlap ==
    EndsNotBeforeStarts =>
        \A g, f \in Items : IsGap(g) /\ IsFolder(f) =>
            /\ ~MeetsHalfOpen(timeline[g].start_time, timeline[g].end_time,
                              timeline[f].start_time, timeline[f].end_time)
            /\ cushion_mins > 0 =>
                   ~MeetsClosed(timeline[g].start_time, timeline[g].end_time,
                                timeline[f].start_time, timeline[f].end_time)

\* A returned timeline over two overlapping events, one under way at now,
\* with a task scheduled after them.
C3_Witness ==
    /\ pc = "done"
    /\ EndsNotBeforeStarts
    /\ \E e, f \in events :
          Overlapping(e, f) /\ e.start_time <= now /\ now < e.end_time
    /\ \E g, f \in Items : IsFolder(f) /\ IsGap(g) /\ f < g

\* C5: a task with a parent_event_id is carried by no GapTask, and only by
\* EventFolders of the event whose id is its parent_event_id.
C5_NestedOnlyInParent ==
    \A t \in TaskSet : t.parent_event_id # None =>
        \A i \in Items : Carries(i, t) =>
            IsFolder(i) /\ timeline[i].source_id = t.parent_event_id

\* A returned timeline with a nested task in its parent's folder, beside the
\* folder of another event and a GapTask.
C5_Witness ==
    /\ pc = "done"
    /\ \E t \in TaskSet : \E i, j, k \in Items :
          /\ t.parent_event_id # None
          /\ IsFolder(i) /\ Carries(i, t)
          /\ IsFolder(j) /\ timeline[j].source_id # t.parent_event_id
          /\ IsGap(k)

\* C8 as stated: every item starts no earlier than its predecessor's end
\* plus the cushion.
C8_Original ==
    \A i \in Items : i + 1 \in Items =>
        timeline[i + 1].start_time >= timeline[i].end_time + cushion

\* C8 amended: of two consecutive items of which at least one is a GapTask,
\* the second starts no earlier than the first's end plus the cushion.
C8_CushionAroundGapTasks ==
    \A i \in Items : i + 1 \in Items /\ (IsGap(i) \/ IsGap(i + 1)) =>
        timeline[i + 1].start_time >= timeline[i].end_time + cushion

\* A returned timeline with a GapTask right before an EventFolder, a GapTask
\* right after one and two GapTasks in a row, under a cushion above zero.
C8_Witness ==
    /\ pc = "done"
    /\ cushion_mins > 0
    /\ \E i, j, k \in Items :
          /\ IsGap(i) /\ i + 1 \in Items /\ IsFolder(i + 1)
          /\ IsFolder(j) /\ j + 1 \in Items /\ IsGap(j + 1)
          /\ IsGap(k) /\ k + 1 \in Items /\ IsGap(k + 1)

\* The cursor's step per task placed, and the smaller of two numbers.
step == task_dur + cushion
Min(a, b) == IF a <= b THEN a ELSE b

\* The last EventFolder before position f (0 when there is none), and the
\* number of GapTasks at positions 1..m.
PrevFolder(f) ==
    LET P == {p \in 1..(f - 1) : IsFolder(p)} IN
    IF P = {} THEN 0 ELSE CHOOSE p \in P : \A r \in P : r <= p
GapsUpTo(m) == Cardinality({g \in 1..m : IsGap(g)})

\* The cursor on reaching the event whose folder is (or will be) at position
\* f: now for the first event, and after an event the larger of the cursor
\* past the tasks placed before it and the event's end plus the cushion.
RECURSIVE CursorOnReaching(_)
CursorOnReaching(f) ==
    LET p == PrevFolder(f) IN
    IF p = 0 THEN now
    ELSE Max(CursorOnReaching(p) + (p - 1 - PrevFolder(p)) * step,
             timeline[p].end_time + cushion)

\* The queue's length on reaching that event, and how many tasks fit.
QueueOnReaching(f) == Len(Standalone(all_tasks)) - GapsUpTo(PrevFolder(f))
Fit(c, start) == IF start < c THEN 0 ELSE (start - c) \div step

\* C11: with cursor c on reaching an event, queue length q, duration d and
\* cushion k, the GapTasks right before the event's EventFolder number
\* min(q, floor((event.start_time - c) / (d + k))), 0 when the event starts
\* before c; the i-th spans [c + i*(d+k), c + i*(d+k) + d); tasks are placed
\* in queue order, so the remaining ones come after the folder, starting no
\* earlier than the event's end, and all of them are in the returned
\* timeline.  The cursor of the program is the c of this statement.
C11_GapsBeforeEvent ==
    /\ \A f \in Items : IsFolder(f) =>
          LET p == PrevFolder(f)
              c == CursorOnReaching(f)
              n == f - 1 - p
          IN  /\ n = Min(QueueOnReaching(f), Fit(c, timeline[f].start_time))
              /\ \A i \in 0..(n - 1) :
                    /\ IsGap(p + 1 + i)
                    /\ timeline[p + 1 + i].start_time = c + i * step
                    /\ timeline[p + 1 + i].end_time = c + i * step + task_dur
              /\ \A g \in Items : g > f /\ IsGap(g) =>
                    timeline[g].start_time >= timeline[f].end_time
    /\ \A g \in Items : IsGap(g) =>
          /\ GapsUpTo(g) <= Len(Standalone(all_tasks))
          /\ timeline[g].nested_tasks = <<Standalone(all_tasks)[GapsUpTo(g)]>>
    /\ pc = "done" => GapsUpTo(Len(timeline)) = Len(Standalone(all_tasks))
    /\ pc = "events" =>
          current_time = CursorOnReaching(Len(timeline) + 1)
                         + (Len(timeline) - PrevFolder(Len(timeline) + 1)) * step

\* The returned timeline of three tasks of 30 minutes under a cushion of 5
\* minutes, now at 08:00 and an event at 09:00: one GapTask 08:00-08:30
\* before the folder, two after it.
C11_Witness ==
    /\ pc = "done"
    /\ default_task_duration = 30 /\ cushion_mins = 5 /\ now = Hours(8)
    /\ Len(timeline) = 4
    /\ IsGap(1) /\ IsFolder(2) /\ IsGap(3) /\ IsGap(4)
    /\ timeline[1].start_time = Hours(8)
    /\ timeline[1].end_time = Hours(8) + Minutes(30)
    /\ timeline[2].start_time = Hours(9)

----------------------------------------------------------------------------
\* Properties of the fetch.

Triple(e) == <<e.title, e.start_time, e.end_time>>
Fetched == pc \in {"fetched", "call", "events", "done"}
Positions ==
    {<<c, o>> \in (DOMAIN calendars) \X (1..MaxObjects + 1) :
        calendars[c].open_ok /\ o \in DOMAIN calendars[c].objects}
ObjectAt(p) == calendars[p[1]].objects[p[2]]
\* The loop of eds.py 177 is past the object at p.
Past(p) == Fetched \/ p[1] < cal_i \/ (p[1] = cal_i /\ pc = "object" /\ p[2] < obj_i)
FoldersOf(e) ==
    {i \in Items : /\ IsFolder(i)
                   /\ <<timeline[i].title, timeline[i].start_time,
                        timeline[i].end_time>> = Triple(e)}

\* C4: the result set holds exactly one entry for the (title, start, end) of
\* every occurrence added to it, whatever the ids and sources, and the
\* resolver emits one EventFolder for it.
C4_OneEntryPerTriple ==
    \A e \in built :
        /\ Cardinality({x \in all_events : Triple(x) = Triple(e)}) = 1
        /\ pc = "done" => Cardinality(FoldersOf(e)) = 1

\* Two occurrences of one title, start and end, of different ids and
\* different sources, were added, and the timeline is returned.
C4_Witness ==
    /\ pc = "done"
    /\ \E a, b \in built :
          Triple(a) = Triple(b) /\ a.id # b.id /\ a.source_id # b.source_id

\* C6 as stated: every occurrence fetch_events produces starts before the
\* end of the queried window and ends after its start.
C6_Original ==
    \A e \in built :
        e.start_time < dt_end_query /\ e.end_time > dt_start_query

RuleFailed(obj) ==
    /\ obj.parse_ok /\ ~BaseRaises(obj)
    /\ obj.rrule.present /\ ExpansionRaises(obj.rrule)

BaseEvent(p) ==
    CalendarEvent(ObjectAt(p).uid, ObjectAt(p).summary,
                  FixLyingOutlookTimezone(base_start_of(ObjectAt(p)), local_off),
                  FixLyingOutlookTimezone(base_end_of(ObjectAt(p)), local_off),
                  calendars[p[1]].id)

\* C7: an object whose rule fails to expand contributes its base occurrence
\* and nothing else; the fetch goes on from it, nothing being raised; and when
\* the fetch returns, every object of every opened calendar was reached and
\* the base occurrence of every failed one is in the result set.
C7_FallbackToBase ==
    /\ pc = "instances" /\ RuleFailed(component) =>
          event_instances = <<BaseInstance(component)>>
    /\ \A p \in Positions : RuleFailed(ObjectAt(p)) /\ Past(p) =>
          /\ BaseEvent(p) \in built
          /\ \E x \in all_events : Triple(x) = Triple(BaseEvent(p))
    /\ (AtObject \/ pc = "instances") /\ RuleFailed(component) => ENABLED Fetch
    /\ Fetched => reached = Positions

\* The fetch returned after a rule failed on an object that is followed by
\* another object of its calendar and by another calendar, both of which
\* contributed an occurrence.
C7_Witness ==
    /\ pc = "fetched"
    /\ \E p, q, r \in Positions :
          /\ RuleFailed(ObjectAt(p))
          /\ q[1] = p[1] /\ q[2] > p[2] /\ r[1] > p[1]
          /\ \E e, f \in built :
                /\ e.id = ObjectAt(q).uid /\ e.source_id = calendars[q[1]].id
                /\ e.id # ObjectAt(p).uid
                /\ f.source_id = calendars[r[1]].id

RawEndsNotBeforeStarts ==
    \A p \in Positions : ObjectAt(p).parse_ok =>
        TrueInstant(ObjectAt(p).dtend, local_off)
            >= TrueInstant(ObjectAt(p).dtstart, local_off)

\* C9 as stated: when no raw record ends before it starts, every
\* CalendarEvent built has end_time >= start_time.
C9_Original ==
    RawEndsNotBeforeStarts =>
        \A e \in built : e.end_time >= e.start_time

\* The inputs of C10: one floating event on a Monday, ending the same day,
\* under a WEEKLY rule with weekday selectors that select the Monday, and no
\* UNTIL.
WeeklyCase ==
    /\ Len(calendars) = 1 /\ calendars[1].open_ok /\ Len(calendars[1].objects) = 1
    /\ LET obj == calendars[1].objects[1] IN
       /\ obj.parse_ok /\ obj.rrule.present
       /\ obj.rrule.freq = "WEEKLY"
       /\ obj.rrule.until.kind = "none"
       /\ obj.dtstart.kind = "naive" /\ obj.dtend.kind = "naive"
       /\ Weekday(obj.dtstart.wall) \in byweekday_of(obj.rrule)
       /\ Midnight(obj.dtend.wall) = Midnight(obj.dtstart.wall)
       /\ target_date > obj.dtstart.wall \div TicksPerDay

\* C10 as stated: in that case the fetch of day D returns exactly one
\* occurrence, at D's local T to T + duration, when D's weekday is selected,
\* and none when it is not.
C10_Original ==
    Fetched /\ WeeklyCase =>
        LET obj == calendars[1].objects[1]
            T == obj.dtstart.wall - Midnight(obj.dtstart.wall)
            start == Days(target_date) + T - local_off
            end == start + (obj.dtend.wall - obj.dtstart.wall)
        IN IF Weekday(Days(target_date)) \in byweekday_of(obj.rrule)
           THEN {<<e.start_time, e.end_time>> : e \in all_events} = {<<start, end>>}
           ELSE all_events = {}

\* The same with the local zone at UTC, where a floating time and its UTC
\* label are the same instant: scenario A of the specification.
C10_AtUTC == local_off = 0 => C10_Original

====
